---- MODULE Spec2Model ----
(***************************************************************************)
(* Hospital administration back end: the billing controller with the      *)
(* Billing schema's save hook, and the bed / inpatient-stay controllers.  *)
(* Stored documents are the state; every request handler is an action.    *)
(***************************************************************************)
EXTENDS Integers, Sequences, FiniteSets, TLC

(***************************************************************************)
(* Bounds of the model                                                     *)
(***************************************************************************)
\* invoices created over a run (Mongo _id values 1..MaxBills)
MaxBills == 1
\* entries of one invoice's payments array
MaxPayments == 2
\* addPayment requests that may be in flight at once (concurrent runs)
MaxInflight == 2
\* billing requests received over a run
MaxRequests == 4
\* beds created over a run (Mongo _id values 1..MaxBeds)
MaxBeds == 2
\* inpatient stays created over a run (Mongo _id values 1..MaxStays)
MaxStays == 2
\* bed and inpatient requests received over a run
MaxWardRequests == 5
\* appointments created over a run (Mongo _id values 1..MaxAppts)
MaxAppts == 2
\* appointment requests received over a run
MaxApptRequests == 4
\* OPD records created over a run
MaxOpds == 1
\* getAvailableSlots requests received over a run
MaxSlotRequests == 3
\* medicines created over a run (Mongo _id values 1..MaxMedicines)
MaxMedicines == 1
\* pharmacy requests received over a run
MaxStockRequests == 5

(***************************************************************************)
(* Request inputs                                                          *)
(***************************************************************************)
\* a service line as a client sends it: no total
Svc(u, q, d) == [unitPrice |-> u, quantity |-> q, discount |-> d, total |-> <<>>]

\* req.body.services of createBill / updateBill
ServiceLists ==
  { <<>>, <<Svc(100, 1, 0)>>, <<Svc(100, 2, 0)>>, <<Svc(100, 1, 150)>> }

\* req.body.tax.percentage
TaxPcts == {0, 10}

\* req.body.discount: percentage and flat amount
Discounts == { [percentage |-> 0, amount |-> 0], [percentage |-> 50, amount |-> 0] }

\* req.body.amount of addPayment
PayAmounts == {-50, 0, 50, 100}

\* patients on file, and one id that is not on file
Patients == {"P1", "P2"}
UnknownPatient == "P0"

PaymentStatuses == {"PENDING", "PARTIAL", "PAID", "CANCELLED"}

\* req.body of updateBill: any subset of schema paths; the model sends one path
UpdateBodies ==
       { [services |-> s] : s \in ServiceLists }
  \cup { [totalAmount |-> t] : t \in {-50, 50} }
  \cup { [paidAmount |-> p] : p \in {0, 50} }
  \cup { [paymentStatus |-> st] : st \in {"PENDING"} }

(***************************************************************************)
(* State                                                                   *)
(***************************************************************************)
VARIABLES
  bills,      \* Billing collection: _id -> document
  billSeq,    \* number of Billing documents inserted so far (next _id - 1)
  inflight,   \* requests between two of their awaits
  beds,       \* Bed collection: _id -> document
  bedSeq,     \* number of Bed documents inserted so far
  stays,      \* IPDRecord collection, in insertion order (_id = index)
  appts,      \* Appointment collection, in insertion order (_id = index)
  opds,       \* OPDRecord collection, in insertion order
  doctorDoc,  \* the Doctor document of Dr1: availability and slotDuration
  medicines,  \* Pharmacy collection, in insertion order (_id = index)
  resp,       \* the last HTTP response: handler and status code (500 stands
              \* for an error thrown to the error-handling middleware)
  nreq        \* requests received so far

billVars == <<bills, billSeq, inflight>>
wardVars == <<beds, bedSeq, stays>>
auxVars == <<opds, doctorDoc, medicines>>
vars == <<bills, billSeq, inflight, beds, bedSeq, stays, appts, opds, doctorDoc,
          medicines, resp, nreq>>

\* a billing request is received
Served == nreq < MaxRequests /\ nreq' = nreq + 1
\* a bed or inpatient request is received
WardServed == nreq < MaxWardRequests /\ nreq' = nreq + 1
\* an appointment request is received
ApptServed == nreq < MaxApptRequests /\ nreq' = nreq + 1

NoReq == [state |-> "idle"]

(***************************************************************************)
(* Billing schema: validators and the pre('save') hook                     *)
(***************************************************************************)
RECURSIVE SumSeq(_)
SumSeq(s) == IF s = <<>> THEN 0 ELSE Head(s) + SumSeq(Tail(s))

LineTotal(s) == (s.unitPrice * s.quantity) - s.discount

\* validators of one element of the services array
ValidService(s) ==
  /\ s.quantity >= 1
  /\ s.unitPrice >= 0
  /\ s.discount >= 0
  /\ (s.total # <<>> => s.total[1] >= 0)

\* document validation, run by save() before the schema's own pre('save') hook
ValidBill(b) ==
  /\ \A i \in DOMAIN b.services : ValidService(b.services[i])
  /\ b.subtotal >= 0
  /\ b.totalAmount >= 0
  /\ b.paidAmount >= 0
  /\ b.paymentStatus \in PaymentStatuses

PreSave(b) ==
  LET svcs     == [i \in DOMAIN b.services |->
                     [b.services[i] EXCEPT !.total = <<LineTotal(b.services[i])>>]]
      subtotal == SumSeq([i \in DOMAIN svcs |-> svcs[i].total[1]])
      taxAmt   == (subtotal * b.taxPct) \div 100
      discAmt  == IF b.discPct > 0 THEN (subtotal * b.discPct) \div 100 ELSE b.discAmt
      total    == subtotal + taxAmt - discAmt
      status   == IF b.paidAmount >= total THEN "PAID"
                  ELSE IF b.paidAmount > 0 THEN "PARTIAL"
                  ELSE b.paymentStatus
  IN [b EXCEPT !.services = svcs, !.subtotal = subtotal, !.taxAmt = taxAmt,
               !.discAmt = discAmt, !.totalAmount = total,
               !.balanceAmount = total - b.paidAmount, !.paymentStatus = status]

\* invoiceId of a new document: count of stored documents + 1
NextInvoiceId == Cardinality(DOMAIN bills) + 1

\* unique index on invoiceId
InvoiceIdTaken(n) == \E i \in DOMAIN bills : bills[i].invoiceId = n

(***************************************************************************)
(* Billing controller                                                      *)
(***************************************************************************)
\* the document createBill hands to Billing.create
NewBill(services, taxPct, discount) ==
  LET svcs     == [i \in DOMAIN services |->
                     [services[i] EXCEPT !.total = <<LineTotal(services[i])>>]]
      subtotal == SumSeq([i \in DOMAIN svcs |-> svcs[i].total[1]])
      taxAmt   == IF taxPct # 0 THEN (subtotal * taxPct) \div 100 ELSE 0
      discAmt  == IF discount.percentage # 0
                    THEN (subtotal * discount.percentage) \div 100
                    ELSE discount.amount
      total    == subtotal + taxAmt - discAmt
  IN [invoiceId |-> 0, services |-> svcs, subtotal |-> subtotal,
      taxPct |-> taxPct, taxAmt |-> taxAmt,
      discPct |-> discount.percentage, discAmt |-> discAmt,
      totalAmount |-> total, paidAmount |-> 0, balanceAmount |-> total,
      paymentStatus |-> "PENDING", payments |-> <<>>]

CreateBill(patient, services, taxPct, discount) ==
  LET doc == NewBill(services, taxPct, discount)
      id  == billSeq + 1
  IN /\ billSeq < MaxBills
     /\ IF patient \notin Patients
          THEN /\ resp' = [op |-> "createBill", code |-> 404]
               /\ UNCHANGED <<bills, billSeq>>
        ELSE IF ~ValidBill(doc) \/ InvoiceIdTaken(NextInvoiceId)
          THEN /\ resp' = [op |-> "createBill", code |-> 500]
               /\ UNCHANGED <<bills, billSeq>>
        ELSE /\ bills' = [i \in DOMAIN bills \cup {id} |->
                            IF i = id
                              THEN PreSave([doc EXCEPT !.invoiceId = NextInvoiceId])
                              ELSE bills[i]]
             /\ billSeq' = id
             /\ resp' = [op |-> "createBill", code |-> 201]
     /\ UNCHANGED inflight
     /\ Served /\ UNCHANGED <<wardVars, appts, auxVars>>

\* update validators (runValidators: true) on the paths of the update
ValidUpdate(body) ==
  /\ "services" \in DOMAIN body =>
       \A i \in DOMAIN body.services : ValidService(body.services[i])
  /\ "totalAmount" \in DOMAIN body => body.totalAmount >= 0
  /\ "paidAmount" \in DOMAIN body => body.paidAmount >= 0
  /\ "paymentStatus" \in DOMAIN body => body.paymentStatus \in PaymentStatuses

\* findByIdAndUpdate: $set of the paths of the body, no save hook
ApplyUpdate(b, body) ==
  [f \in DOMAIN b |-> IF f \in DOMAIN body THEN body[f] ELSE b[f]]

\* updateBill without the check for a fully paid bill
UpdateBillUnguarded(id, body) ==
  /\ IF id \notin DOMAIN bills
       THEN /\ resp' = [op |-> "updateBill", code |-> 404]
            /\ UNCHANGED bills
     ELSE IF ~ValidUpdate(body)
       THEN /\ resp' = [op |-> "updateBill", code |-> 500]
            /\ UNCHANGED bills
     ELSE /\ bills' = [bills EXCEPT ![id] = ApplyUpdate(bills[id], body)]
          /\ resp' = [op |-> "updateBill", code |-> 200]
  /\ UNCHANGED <<billSeq, inflight>>
  /\ Served /\ UNCHANGED <<wardVars, appts, auxVars>>

UpdateBill(id, body) ==
  /\ IF id \notin DOMAIN bills
       THEN /\ resp' = [op |-> "updateBill", code |-> 404]
            /\ UNCHANGED bills
     ELSE IF bills[id].paymentStatus = "PAID"
       THEN /\ resp' = [op |-> "updateBill", code |-> 400]
            /\ UNCHANGED bills
     ELSE IF ~ValidUpdate(body)
       THEN /\ resp' = [op |-> "updateBill", code |-> 500]
            /\ UNCHANGED bills
     ELSE /\ bills' = [bills EXCEPT ![id] = ApplyUpdate(bills[id], body)]
          /\ resp' = [op |-> "updateBill", code |-> 200]
  /\ UNCHANGED <<billSeq, inflight>>
  /\ Served /\ UNCHANGED <<wardVars, appts, auxVars>>

DeleteBill(id) ==
  /\ IF id \notin DOMAIN bills
       THEN /\ resp' = [op |-> "deleteBill", code |-> 404]
            /\ UNCHANGED bills
     ELSE IF bills[id].paidAmount > 0
       THEN /\ resp' = [op |-> "deleteBill", code |-> 400]
            /\ UNCHANGED bills
     ELSE /\ bills' = [i \in DOMAIN bills \ {id} |-> bills[i]]
          /\ resp' = [op |-> "deleteBill", code |-> 200]
  /\ UNCHANGED <<billSeq, inflight>>
  /\ Served /\ UNCHANGED <<wardVars, appts, auxVars>>

\* addPayment on the document it read: the status code, and the document
\* handed to save() when the request gets that far
PaymentDraft(snap, amount) ==
  LET paid    == snap.paidAmount + amount
      balance == snap.totalAmount - paid
  IN [snap EXCEPT !.payments = Append(@, [amount |-> amount]),
                  !.paidAmount = paid,
                  !.balanceAmount = balance,
                  !.paymentStatus = IF balance <= 0 THEN "PAID" ELSE "PARTIAL"]

PaymentCode(snap, amount) ==
  IF snap.paymentStatus = "PAID" THEN 400
  ELSE IF amount > snap.balanceAmount THEN 400
  ELSE IF ~ValidBill(PaymentDraft(snap, amount)) THEN 500
  ELSE 200

\* save() of a loaded document: $push of the new payment and $set of every
\* path whose value differs from the value that was read
SaveBill(cur, snap, final) ==
  [f \in DOMAIN cur |->
     IF f = "payments" THEN Append(cur.payments, final.payments[Len(final.payments)])
     ELSE IF final[f] # snap[f] THEN final[f]
     ELSE cur[f]]

\* requests handled one at a time: findById, checks, push, save in one step
AddPayment(id, amount) ==
  /\ IF id \notin DOMAIN bills
       THEN /\ resp' = [op |-> "addPayment", code |-> 404]
            /\ UNCHANGED bills
     ELSE /\ Len(bills[id].payments) < MaxPayments
          /\ resp' = [op |-> "addPayment", code |-> PaymentCode(bills[id], amount)]
          /\ IF PaymentCode(bills[id], amount) = 200
               THEN bills' = [bills EXCEPT ![id] =
                      SaveBill(@, @, PreSave(PaymentDraft(@, amount)))]
               ELSE UNCHANGED bills
  /\ UNCHANGED <<billSeq, inflight>>
  /\ Served /\ UNCHANGED <<wardVars, appts, auxVars>>

\* overlapping requests: the handler up to the end of findById ...
InflightOn(id) == Cardinality({r \in DOMAIN inflight :
                     inflight[r].state = "loaded" /\ inflight[r].id = id})

AddPaymentLoad(r, id, amount) ==
  /\ inflight[r].state = "idle"
  /\ id \in DOMAIN bills
  /\ Len(bills[id].payments) + InflightOn(id) < MaxPayments
  /\ inflight' = [inflight EXCEPT ![r] =
        [state |-> "loaded", id |-> id, amount |-> amount, snap |-> bills[id]]]
  /\ UNCHANGED <<bills, billSeq, resp>>
  /\ Served /\ UNCHANGED <<wardVars, appts, auxVars>>

\* ... and from there to the response
AddPaymentSave(r) ==
  /\ inflight[r].state = "loaded"
  /\ LET q    == inflight[r]
         code == PaymentCode(q.snap, q.amount)
     IN IF code # 200
          THEN /\ resp' = [op |-> "addPayment", code |-> code]
               /\ UNCHANGED bills
        ELSE IF q.id \notin DOMAIN bills
          THEN /\ resp' = [op |-> "addPayment", code |-> 500]
               /\ UNCHANGED bills
        ELSE /\ bills' = [bills EXCEPT ![q.id] =
                   SaveBill(@, q.snap, PreSave(PaymentDraft(q.snap, q.amount)))]
             /\ resp' = [op |-> "addPayment", code |-> 200]
  /\ inflight' = [inflight EXCEPT ![r] = NoReq]
  /\ UNCHANGED <<billSeq, nreq, wardVars, appts, auxVars>>

(***************************************************************************)
(* Bed controller                                                          *)
(***************************************************************************)
BedStatuses == {"AVAILABLE", "OCCUPIED", "MAINTENANCE", "RESERVED"}
IpdStatuses == {"ADMITTED", "DISCHARGED", "TRANSFERRED"}
Null == "null"
BedNumbers == {"B-1", "B-2"}

\* req.body of createBed: bedNumber plus optional status and currentPatient
\* ("default" = path absent, the schema default applies)
CreateBedBodies ==
  [bedNumber : BedNumbers,
   status : {"default", "OCCUPIED", "MAINTENANCE", "BROKEN"},
   currentPatient : {Null, "P1"}]

\* req.body of updateBed: the model sends one path
UpdateBedBodies ==
       { [status |-> st] : st \in BedStatuses \cup {"BROKEN"} }
  \cup { [currentPatient |-> p] : p \in {Null, "P1"} }

BedNumberTaken(n) == \E i \in DOMAIN beds : beds[i].bedNumber = n

CreateBed(body) ==
  LET id  == bedSeq + 1
      doc == [bedNumber |-> body.bedNumber,
              status |-> IF body.status = "default" THEN "AVAILABLE" ELSE body.status,
              currentPatient |-> body.currentPatient]
  IN /\ bedSeq < MaxBeds
     /\ IF doc.status \notin BedStatuses \/ BedNumberTaken(doc.bedNumber)
          THEN /\ resp' = [op |-> "createBed", code |-> 500]
               /\ UNCHANGED <<beds, bedSeq, auxVars>>
          ELSE /\ beds' = [i \in DOMAIN beds \cup {id} |->
                             IF i = id THEN doc ELSE beds[i]]
               /\ bedSeq' = id
               /\ resp' = [op |-> "createBed", code |-> 201]
     /\ UNCHANGED stays
     /\ WardServed /\ UNCHANGED <<billVars, appts, auxVars>>

UpdateBed(id, body) ==
  /\ IF id \notin DOMAIN beds
       THEN /\ resp' = [op |-> "updateBed", code |-> 404]
            /\ UNCHANGED beds
     ELSE IF "status" \in DOMAIN body /\ body.status \notin BedStatuses
       THEN /\ resp' = [op |-> "updateBed", code |-> 500]
            /\ UNCHANGED beds
     ELSE /\ beds' = [beds EXCEPT ![id] =
                 [f \in DOMAIN @ |-> IF f \in DOMAIN body THEN body[f] ELSE @[f]]]
          /\ resp' = [op |-> "updateBed", code |-> 200]
  /\ UNCHANGED <<bedSeq, stays, auxVars>>
  /\ WardServed /\ UNCHANGED <<billVars, appts, auxVars>>

DeleteBedUnguarded(id) ==
  /\ IF id \notin DOMAIN beds
       THEN /\ resp' = [op |-> "deleteBed", code |-> 404]
            /\ UNCHANGED beds
       ELSE /\ beds' = [i \in DOMAIN beds \ {id} |-> beds[i]]
            /\ resp' = [op |-> "deleteBed", code |-> 200]
  /\ UNCHANGED <<bedSeq, stays, auxVars>>
  /\ WardServed /\ UNCHANGED <<billVars, appts, auxVars>>

DeleteBed(id) ==
  /\ IF id \notin DOMAIN beds
       THEN /\ resp' = [op |-> "deleteBed", code |-> 404]
            /\ UNCHANGED beds
     ELSE IF beds[id].status = "OCCUPIED"
       THEN /\ resp' = [op |-> "deleteBed", code |-> 400]
            /\ UNCHANGED beds
     ELSE /\ beds' = [i \in DOMAIN beds \ {id} |-> beds[i]]
          /\ resp' = [op |-> "deleteBed", code |-> 200]
  /\ UNCHANGED <<bedSeq, stays, auxVars>>
  /\ WardServed /\ UNCHANGED <<billVars, appts, auxVars>>

MarkMaintenance(id) ==
  /\ IF id \notin DOMAIN beds
       THEN /\ resp' = [op |-> "markMaintenance", code |-> 404]
            /\ UNCHANGED beds
     ELSE IF beds[id].status = "OCCUPIED"
       THEN /\ resp' = [op |-> "markMaintenance", code |-> 400]
            /\ UNCHANGED beds
     ELSE /\ beds' = [beds EXCEPT ![id].status = "MAINTENANCE"]
          /\ resp' = [op |-> "markMaintenance", code |-> 200]
  /\ UNCHANGED <<bedSeq, stays, auxVars>>
  /\ WardServed /\ UNCHANGED <<billVars, appts, auxVars>>

(***************************************************************************)
(* IPD controller                                                          *)
(***************************************************************************)
FreeBedKeepsPatient(bs, bedId) ==
  IF bedId \in DOMAIN bs
    THEN [bs EXCEPT ![bedId].status = "AVAILABLE"]
    ELSE bs

\* Bed.findByIdAndUpdate(bedId, {status: AVAILABLE, currentPatient: null})
FreeBed(bs, bedId) ==
  IF bedId \in DOMAIN bs
    THEN [bs EXCEPT ![bedId].status = "AVAILABLE", ![bedId].currentPatient = Null]
    ELSE bs

\* bed.status = OCCUPIED; bed.currentPatient = patient; bed.save(), where
\* bed was read as `loaded`: save() writes the paths whose value changed
OccupyBed(bs, loaded, bedId, patient) ==
  [bs EXCEPT ![bedId].status =
               IF loaded.status # "OCCUPIED" THEN "OCCUPIED" ELSE @,
             ![bedId].currentPatient =
               IF loaded.currentPatient # patient THEN patient ELSE @]

HasAdmission(patient) ==
  \E i \in DOMAIN stays : stays[i].patientId = patient /\ stays[i].status = "ADMITTED"

AdmitPatient(patient, bedId) ==
  /\ Len(stays) < MaxStays
  /\ IF patient \notin Patients
       THEN /\ resp' = [op |-> "admitPatient", code |-> 404]
            /\ UNCHANGED <<beds, stays>>
     ELSE IF bedId \notin DOMAIN beds
       THEN /\ resp' = [op |-> "admitPatient", code |-> 404]
            /\ UNCHANGED <<beds, stays>>
     ELSE IF beds[bedId].status # "AVAILABLE"
       THEN /\ resp' = [op |-> "admitPatient", code |-> 400]
            /\ UNCHANGED <<beds, stays>>
     ELSE IF HasAdmission(patient)
       THEN /\ resp' = [op |-> "admitPatient", code |-> 400]
            /\ UNCHANGED <<beds, stays>>
     ELSE /\ stays' = Append(stays,
                 [recordId |-> Len(stays) + 1, patientId |-> patient,
                  bedId |-> bedId, status |-> "ADMITTED",
                  dischargeDate |-> Null, treatmentNotes |-> <<>>,
                  vitalRecords |-> <<>>, medications |-> <<>>])
          /\ beds' = OccupyBed(beds, beds[bedId], bedId, patient)
          /\ resp' = [op |-> "admitPatient", code |-> 201]
  /\ UNCHANGED bedSeq
  /\ WardServed /\ UNCHANGED <<billVars, appts, auxVars>>

\* admitPatient when requests overlap: the handler, await by await.
\* Patient.findById, Bed.findById and the availability test
InflightAdmits == Cardinality({r \in DOMAIN inflight :
                     inflight[r].state \in {"bedRead", "checked", "counted"}})

AdmitStart(r, patient, bedId) ==
  /\ inflight[r].state = "idle"
  /\ Len(stays) + InflightAdmits < MaxStays
  /\ IF patient \notin Patients \/ bedId \notin DOMAIN beds
       THEN /\ resp' = [op |-> "admitPatient", code |-> 404]
            /\ UNCHANGED inflight
     ELSE IF beds[bedId].status # "AVAILABLE"
       THEN /\ resp' = [op |-> "admitPatient", code |-> 400]
            /\ UNCHANGED inflight
     ELSE /\ inflight' = [inflight EXCEPT ![r] =
                 [state |-> "bedRead", patient |-> patient, bedId |-> bedId,
                  bed |-> beds[bedId], count |-> 0]]
          /\ UNCHANGED resp
  /\ UNCHANGED <<bills, billSeq, appts, wardVars, auxVars>>
  /\ WardServed

\* IPDRecord.findOne({patientId, status: ADMITTED})
AdmitCheck(r) ==
  /\ inflight[r].state = "bedRead"
  /\ IF HasAdmission(inflight[r].patient)
       THEN /\ resp' = [op |-> "admitPatient", code |-> 400]
            /\ inflight' = [inflight EXCEPT ![r] = NoReq]
       ELSE /\ inflight' = [inflight EXCEPT ![r].state = "checked"]
            /\ UNCHANGED resp
  /\ UNCHANGED <<bills, billSeq, appts, wardVars, nreq, auxVars>>

\* IPDRecord.create, first half: countDocuments() of the pre('save') hook
AdmitCount(r) ==
  /\ inflight[r].state = "checked"
  /\ inflight' = [inflight EXCEPT ![r].state = "counted", ![r].count = Len(stays)]
  /\ UNCHANGED <<bills, billSeq, appts, wardVars, resp, nreq, auxVars>>

\* unique index on recordId
RecordIdTaken(n) == \E i \in DOMAIN stays : stays[i].recordId = n

\* IPDRecord.create, second half: the insert
AdmitInsert(r) ==
  /\ inflight[r].state = "counted"
  /\ LET q == inflight[r]
     IN IF RecordIdTaken(q.count + 1)
          THEN /\ resp' = [op |-> "admitPatient", code |-> 500]
               /\ inflight' = [inflight EXCEPT ![r] = NoReq]
               /\ UNCHANGED stays
          ELSE /\ stays' = Append(stays,
                     [recordId |-> q.count + 1, patientId |-> q.patient,
                      bedId |-> q.bedId, status |-> "ADMITTED",
                      dischargeDate |-> Null, treatmentNotes |-> <<>>,
                  vitalRecords |-> <<>>, medications |-> <<>>])
               /\ inflight' = [inflight EXCEPT ![r].state = "inserted"]
               /\ UNCHANGED resp
  /\ UNCHANGED <<bills, billSeq, appts, beds, bedSeq, nreq, auxVars>>

\* bed.save() and the response
AdmitSaveBed(r) ==
  /\ inflight[r].state = "inserted"
  /\ LET q == inflight[r]
     IN IF q.bedId \notin DOMAIN beds
          THEN /\ resp' = [op |-> "admitPatient", code |-> 500]
               /\ UNCHANGED beds
          ELSE /\ beds' = OccupyBed(beds, q.bed, q.bedId, q.patient)
               /\ resp' = [op |-> "admitPatient", code |-> 201]
  /\ inflight' = [inflight EXCEPT ![r] = NoReq]
  /\ UNCHANGED <<bills, billSeq, appts, bedSeq, stays, nreq, auxVars>>

\* bed.save() rejects (storage error): asyncHandler passes the error on
AdmitSaveBedFails(r) ==
  /\ inflight[r].state = "inserted"
  /\ resp' = [op |-> "admitPatient", code |-> 500]
  /\ inflight' = [inflight EXCEPT ![r] = NoReq]
  /\ UNCHANGED <<bills, billSeq, appts, wardVars, nreq, auxVars>>

DischargePatient(sid) ==
  /\ IF sid \notin DOMAIN stays
       THEN /\ resp' = [op |-> "dischargePatient", code |-> 404]
            /\ UNCHANGED <<beds, stays>>
     ELSE IF stays[sid].status # "ADMITTED"
       THEN /\ resp' = [op |-> "dischargePatient", code |-> 400]
            /\ UNCHANGED <<beds, stays>>
     ELSE /\ stays' = [stays EXCEPT ![sid].status = "DISCHARGED",
                                     ![sid].dischargeDate = "set"]
          /\ beds' = FreeBed(beds, stays[sid].bedId)
          /\ resp' = [op |-> "dischargePatient", code |-> 200]
  /\ UNCHANGED bedSeq
  /\ WardServed /\ UNCHANGED <<billVars, appts, auxVars>>

\* the note is built after record.bedId has been overwritten
TransferNote(record, newBedId) == [from |-> record.bedId, to |-> newBedId]

TransferPatient(sid, newBedId) ==
  /\ IF sid \notin DOMAIN stays
       THEN /\ resp' = [op |-> "transferPatient", code |-> 404]
            /\ UNCHANGED <<beds, stays>>
     ELSE IF newBedId \notin DOMAIN beds \/ beds[newBedId].status # "AVAILABLE"
       THEN /\ resp' = [op |-> "transferPatient", code |-> 400]
            /\ UNCHANGED <<beds, stays>>
     ELSE LET moved == [stays[sid] EXCEPT !.bedId = newBedId]
          IN /\ beds' = OccupyBed(FreeBed(beds, stays[sid].bedId), beds[newBedId],
                                  newBedId, stays[sid].patientId)
             /\ stays' = [stays EXCEPT ![sid] =
                   [moved EXCEPT !.treatmentNotes =
                      Append(@, TransferNote(moved, newBedId))]]
             /\ resp' = [op |-> "transferPatient", code |-> 200]
  /\ UNCHANGED bedSeq
  /\ WardServed /\ UNCHANGED <<billVars, appts, auxVars>>

\* req.body.note of addTreatmentNote
NoteTexts == {"stable", "review"}
\* req.body of addVitalRecord: pulse as the JSON carries it; the schema casts
\* it to Number
VitalBodies == [bloodPressure : {"120/80"}, pulse : {"72", "fast"}]
CastsToNumber(v) == v \in {"72"}
\* req.body of addMedication
MedicationBodies == [medicine : {"Paracetamol"}, dosage : {"500mg"}]

AddTreatmentNoteOverwrites(sid, note) ==
  /\ IF sid \notin DOMAIN stays
       THEN /\ resp' = [op |-> "addTreatmentNote", code |-> 404]
            /\ UNCHANGED stays
       ELSE /\ stays' = [stays EXCEPT ![sid].treatmentNotes =
                           <<[note |-> note, addedBy |-> "user"]>>]
            /\ resp' = [op |-> "addTreatmentNote", code |-> 200]
  /\ UNCHANGED <<beds, bedSeq>>
  /\ WardServed /\ UNCHANGED <<billVars, appts, auxVars>>

AddTreatmentNote(sid, note) ==
  /\ IF sid \notin DOMAIN stays
       THEN /\ resp' = [op |-> "addTreatmentNote", code |-> 404]
            /\ UNCHANGED stays
       ELSE /\ stays' = [stays EXCEPT ![sid].treatmentNotes =
                           Append(@, [note |-> note, addedBy |-> "user"])]
            /\ resp' = [op |-> "addTreatmentNote", code |-> 200]
  /\ UNCHANGED <<beds, bedSeq>>
  /\ WardServed /\ UNCHANGED <<billVars, appts, auxVars>>

AddVitalRecord(sid, body) ==
  /\ IF sid \notin DOMAIN stays
       THEN /\ resp' = [op |-> "addVitalRecord", code |-> 404]
            /\ UNCHANGED stays
     ELSE IF ~CastsToNumber(body.pulse)
       THEN /\ resp' = [op |-> "addVitalRecord", code |-> 500]
            /\ UNCHANGED stays
     ELSE /\ stays' = [stays EXCEPT ![sid].vitalRecords =
                         Append(@, [bloodPressure |-> body.bloodPressure,
                                    pulse |-> body.pulse, recordedBy |-> "user"])]
          /\ resp' = [op |-> "addVitalRecord", code |-> 200]
  /\ UNCHANGED <<beds, bedSeq>>
  /\ WardServed /\ UNCHANGED <<billVars, appts, auxVars>>

AddMedication(sid, body) ==
  /\ IF sid \notin DOMAIN stays
       THEN /\ resp' = [op |-> "addMedication", code |-> 404]
            /\ UNCHANGED stays
       ELSE /\ stays' = [stays EXCEPT ![sid].medications =
                           Append(@, [medicine |-> body.medicine,
                                      dosage |-> body.dosage,
                                      administeredBy |-> "user"])]
            /\ resp' = [op |-> "addMedication", code |-> 200]
  /\ UNCHANGED <<beds, bedSeq>>
  /\ WardServed /\ UNCHANGED <<billVars, appts, auxVars>>

(***************************************************************************)
(* Appointment controller                                                  *)
(***************************************************************************)
ApptStatuses == {"SCHEDULED", "CONFIRMED", "COMPLETED", "CANCELLED", "NO_SHOW"}
Doctors == {"Dr1"}
UnknownDoctor == "Dr0"
\* calendar days of req.body.date and values of req.body.time
Days == {"Mon", "Tue"}
Times == {"09:00", "10:00"}

\* req.body of updateAppointment: the model sends one path
UpdateApptBodies ==
       { [date |-> d] : d \in Days }
  \cup { [time |-> t] : t \in Times }
  \cup { [status |-> st] : st \in ApptStatuses \cup {"BOGUS"} }

\* Appointment.findOne({_id: {$ne: self}, doctorId, date within the day, time,
\* status in [SCHEDULED, CONFIRMED]}); self = 0 when there is no $ne clause
SlotBooked(self, doctor, day, time) ==
  \E i \in DOMAIN appts :
    /\ i # self
    /\ appts[i].doctorId = doctor
    /\ appts[i].date = day
    /\ appts[i].time = time
    /\ appts[i].status \in {"SCHEDULED", "CONFIRMED"}

InflightCreates == Cardinality({r \in DOMAIN inflight :
                      inflight[r].state \in {"slotFree", "apptCounted"}})

\* createAppointment up to the end of the slot check
CreateApptCheck(r, patient, doctor, day, time) ==
  /\ inflight[r].state = "idle"
  /\ Len(appts) + InflightCreates < MaxAppts
  /\ IF patient \notin Patients \/ doctor \notin Doctors
       THEN /\ resp' = [op |-> "createAppointment", code |-> 404]
            /\ UNCHANGED inflight
     ELSE IF SlotBooked(0, doctor, day, time)
       THEN /\ resp' = [op |-> "createAppointment", code |-> 400]
            /\ UNCHANGED inflight
     ELSE /\ inflight' = [inflight EXCEPT ![r] =
                 [state |-> "slotFree", patient |-> patient, doctor |-> doctor,
                  day |-> day, time |-> time, count |-> 0]]
          /\ UNCHANGED resp
  /\ UNCHANGED <<bills, billSeq, wardVars, appts, auxVars>>
  /\ ApptServed

\* Appointment.create, first half: countDocuments() of the pre('save') hook
CreateApptCount(r) ==
  /\ inflight[r].state = "slotFree"
  /\ inflight' = [inflight EXCEPT ![r].state = "apptCounted", ![r].count = Len(appts)]
  /\ UNCHANGED <<bills, billSeq, wardVars, appts, resp, nreq, auxVars>>

\* unique index on appointmentId
ApptIdTaken(n) == \E i \in DOMAIN appts : appts[i].appointmentId = n

\* Appointment.create, second half: the insert, and the response
CreateApptInsert(r) ==
  /\ inflight[r].state = "apptCounted"
  /\ LET q == inflight[r]
     IN IF ApptIdTaken(q.count + 1)
          THEN /\ resp' = [op |-> "createAppointment", code |-> 500]
               /\ UNCHANGED appts
          ELSE /\ appts' = Append(appts,
                     [appointmentId |-> q.count + 1, patientId |-> q.patient,
                      doctorId |-> q.doctor, date |-> q.day, time |-> q.time,
                      status |-> "SCHEDULED"])
               /\ resp' = [op |-> "createAppointment", code |-> 201]
  /\ inflight' = [inflight EXCEPT ![r] = NoReq]
  /\ UNCHANGED <<bills, billSeq, wardVars, nreq, auxVars>>

UpdateAppointment(id, body) ==
  /\ IF id \notin DOMAIN appts
       THEN /\ resp' = [op |-> "updateAppointment", code |-> 404]
            /\ UNCHANGED appts
     ELSE LET newDate == IF "date" \in DOMAIN body THEN body.date ELSE appts[id].date
              newTime == IF "time" \in DOMAIN body THEN body.time ELSE appts[id].time
          IN IF /\ ("date" \in DOMAIN body \/ "time" \in DOMAIN body)
                /\ SlotBooked(id, appts[id].doctorId, newDate, newTime)
               THEN /\ resp' = [op |-> "updateAppointment", code |-> 400]
                    /\ UNCHANGED appts
             ELSE IF "status" \in DOMAIN body /\ body.status \notin ApptStatuses
               THEN /\ resp' = [op |-> "updateAppointment", code |-> 500]
                    /\ UNCHANGED appts
             ELSE /\ appts' = [appts EXCEPT ![id] =
                         [f \in DOMAIN @ |-> IF f \in DOMAIN body THEN body[f] ELSE @[f]]]
                  /\ resp' = [op |-> "updateAppointment", code |-> 200]
  /\ UNCHANGED <<bills, billSeq, inflight, wardVars, auxVars>>
  /\ ApptServed

CancelAppointment(id) ==
  /\ IF id \notin DOMAIN appts
       THEN /\ resp' = [op |-> "cancelAppointment", code |-> 404]
            /\ UNCHANGED appts
     ELSE IF appts[id].status = "COMPLETED"
       THEN /\ resp' = [op |-> "cancelAppointment", code |-> 400]
            /\ UNCHANGED appts
     ELSE /\ appts' = [appts EXCEPT ![id].status = "CANCELLED"]
          /\ resp' = [op |-> "cancelAppointment", code |-> 200]
  /\ UNCHANGED <<bills, billSeq, inflight, wardVars, auxVars>>
  /\ ApptServed

CompleteAppointment(id) ==
  /\ IF id \notin DOMAIN appts
       THEN /\ resp' = [op |-> "completeAppointment", code |-> 404]
            /\ UNCHANGED appts
     ELSE /\ appts' = [appts EXCEPT ![id].status = "COMPLETED"]
          /\ resp' = [op |-> "completeAppointment", code |-> 200]
  /\ UNCHANGED <<bills, billSeq, inflight, wardVars, auxVars>>
  /\ ApptServed

(***************************************************************************)
(* OPD controller                                                          *)
(***************************************************************************)
\* req.body.appointmentId of createOPDRecord: absent, or an Appointment _id
OpdAppointmentIds == {0} \cup (1..MaxAppts)

CreateOPDRecord(patient, appointmentId) ==
  /\ Len(opds) < MaxOpds
  /\ IF patient \notin Patients
       THEN /\ resp' = [op |-> "createOPDRecord", code |-> 404]
            /\ UNCHANGED <<opds, appts>>
       ELSE /\ opds' = Append(opds, [patientId |-> patient,
                                     appointmentId |-> appointmentId])
            /\ appts' = IF appointmentId \in DOMAIN appts
                          THEN [appts EXCEPT ![appointmentId].status = "COMPLETED"]
                          ELSE appts
            /\ resp' = [op |-> "createOPDRecord", code |-> 201]
  /\ UNCHANGED <<bills, billSeq, inflight, wardVars, doctorDoc, medicines>>
  /\ ApptServed

(***************************************************************************)
(* Doctor controller: availability and slots                               *)
(***************************************************************************)
\* a time of day as the characters of its string
Clock(h1, h2, m1, m2) == <<h1, h2, ":", m1, m2>>

\* the seeder's doctor: 09:00-17:00 on the working days, slotDuration default
SeededDoctor ==
  [availability |-> << [day |-> "Monday",  startTime |-> Clock("0","9","0","0"),
                        endTime |-> Clock("1","7","0","0")],
                       [day |-> "Tuesday", startTime |-> Clock("0","9","0","0"),
                        endTime |-> Clock("1","7","0","0")] >>,
   slotDuration |-> 15]

\* calendar day of req.query.date -> toLocaleDateString weekday
WeekdayOf == [Mon |-> "Monday", Tue |-> "Tuesday"]

\* doctorData.availability of createDoctor: no window, or one for Monday
StartTimes == {Clock("0","9","0","0"), Clock("0","9","3","0")}
EndTimes == {Clock("0","9","0","0"), Clock("1","0","0","0"), Clock("1","0","1","5")}
AvailabilityBodies ==
       { <<>> }
  \cup { <<[day |-> "Monday", startTime |-> st, endTime |-> en]>> :
           st \in StartTimes, en \in EndTimes }

\* doctorData.slotDuration of createDoctor (validator min: 5)
SlotDurations == {15, 30, 45}

\* a doctor request is received
SlotServed == nreq < MaxSlotRequests /\ nreq' = nreq + 1

DigitChars == <<"0", "1", "2", "3", "4", "5", "6", "7", "8", "9">>
DigitValue(c) == (CHOOSE k \in DOMAIN DigitChars : DigitChars[k] = c) - 1

\* Number(str) of a string of decimal digits
RECURSIVE NumberOf(_)
NumberOf(chars) ==
  IF chars = <<>> THEN 0
  ELSE NumberOf(SubSeq(chars, 1, Len(chars) - 1)) * 10 + DigitValue(chars[Len(chars)])

\* n.toString() of a non-negative integer
RECURSIVE ToDigits(_)
ToDigits(n) ==
  IF n < 10 THEN <<DigitChars[n + 1]>>
  ELSE Append(ToDigits(n \div 10), DigitChars[(n % 10) + 1])

\* str.padStart(2, '0')
PadStart2(chars) == IF Len(chars) < 2 THEN <<"0">> \o chars ELSE chars

\* timeStr.split(':').map(Number), hours * 60 + minutes
parseTime(timeStr) ==
  LET colon   == CHOOSE i \in DOMAIN timeStr :
                   timeStr[i] = ":" /\ \A j \in 1..(i - 1) : timeStr[j] # ":"
      hours   == NumberOf(SubSeq(timeStr, 1, colon - 1))
      minutes == NumberOf(SubSeq(timeStr, colon + 1, Len(timeStr)))
  IN hours * 60 + minutes

formatTime(minutes) ==
  PadStart2(ToDigits(minutes \div 60)) \o <<":">> \o PadStart2(ToDigits(minutes % 60))

\* the while loop of generateTimeSlots
RECURSIVE SlotsFrom(_, _, _)
SlotsFrom(current, end, duration) ==
  IF current < end
    THEN <<formatTime(current)>> \o SlotsFrom(current + duration, end, duration)
    ELSE <<>>

generateTimeSlotsInclusive(startTime, endTime, duration) ==
  SlotsFrom(parseTime(startTime), parseTime(endTime) + 1, duration)

generateTimeSlots(startTime, endTime, duration) ==
  SlotsFrom(parseTime(startTime), parseTime(endTime), duration)

\* the string of a sequence of characters
RECURSIVE TimeString(_)
TimeString(chars) ==
  IF chars = <<>> THEN "" ELSE chars[1] \o TimeString(Tail(chars))

\* times of the doctor's SCHEDULED or CONFIRMED appointments on the day
BookedTimes(id, day) ==
  { appts[i].time : i \in { j \in DOMAIN appts :
        /\ appts[j].doctorId = id /\ appts[j].date = day
        /\ appts[j].status \in {"SCHEDULED", "CONFIRMED"} } }

\* doctor.availability.filter(a => a.day === dayName): find() is its head
DayAvailability(dayName) ==
  LET OnDay(a) == a.day = dayName
  IN SelectSeq(doctorDoc.availability, OnDay)

GetAvailableSlots(id, day) ==
  /\ IF day = Null
       THEN resp' = [op |-> "getAvailableSlots", code |-> 400]
     ELSE IF id \notin Doctors
       THEN resp' = [op |-> "getAvailableSlots", code |-> 404]
     ELSE LET found == DayAvailability(WeekdayOf[day])
              a     == Head(found)
          IN IF found = <<>>
               THEN resp' = [op |-> "getAvailableSlots", code |-> 200,
                             available |-> FALSE, slots |-> <<>>]
               ELSE LET slots == generateTimeSlots(a.startTime, a.endTime,
                                                   doctorDoc.slotDuration)
                    IN resp' = [op |-> "getAvailableSlots", code |-> 200,
                                available |-> TRUE,
                                slots |-> [i \in DOMAIN slots |->
                                   [time |-> slots[i],
                                    available |-> TimeString(slots[i]) \notin
                                                    BookedTimes(id, day)]]]
  /\ UNCHANGED <<billVars, wardVars, appts, auxVars>>
  /\ SlotServed

(***************************************************************************)
(* Pharmacy controller                                                     *)
(***************************************************************************)
\* req.body.stock of createMedicine
InitialStocks == {-5, 0, 10}
\* req.body.quantity and req.body.operation of updateStock
Quantities == {-10, 0, 5, 20}
Operations == {"add", "subtract", "set"}

\* a pharmacy request is received
StockServed == nreq < MaxStockRequests /\ nreq' = nreq + 1

\* stock: { type: Number, required: true, min: 0 }
ValidStock(n) == n >= 0

CreateMedicine(stock) ==
  /\ Len(medicines) < MaxMedicines
  /\ IF ~ValidStock(stock)
       THEN /\ resp' = [op |-> "createMedicine", code |-> 500]
            /\ UNCHANGED medicines
       ELSE /\ medicines' = Append(medicines, [stock |-> stock])
            /\ resp' = [op |-> "createMedicine", code |-> 201]
  /\ UNCHANGED <<billVars, wardVars, appts, opds, doctorDoc>>
  /\ StockServed

\* updateStock without the test for insufficient stock
UpdateStockUnchecked(id, quantity, operation) ==
  /\ IF id \notin DOMAIN medicines
       THEN /\ resp' = [op |-> "updateStock", code |-> 404]
            /\ UNCHANGED medicines
     ELSE LET stock == IF operation = "add" THEN medicines[id].stock + quantity
                       ELSE IF operation = "subtract" THEN medicines[id].stock - quantity
                       ELSE quantity
          IN IF ~ValidStock(stock)
               THEN /\ resp' = [op |-> "updateStock", code |-> 500]
                    /\ UNCHANGED medicines
               ELSE /\ medicines' = [medicines EXCEPT ![id].stock = stock]
                    /\ resp' = [op |-> "updateStock", code |-> 200]
  /\ UNCHANGED <<billVars, wardVars, appts, opds, doctorDoc>>
  /\ StockServed

UpdateStock(id, quantity, operation) ==
  /\ IF id \notin DOMAIN medicines
       THEN /\ resp' = [op |-> "updateStock", code |-> 404]
            /\ UNCHANGED medicines
     ELSE IF operation = "subtract" /\ medicines[id].stock < quantity
       THEN /\ resp' = [op |-> "updateStock", code |-> 400]
            /\ UNCHANGED medicines
     ELSE LET stock == IF operation = "add" THEN medicines[id].stock + quantity
                       ELSE IF operation = "subtract" THEN medicines[id].stock - quantity
                       ELSE quantity
          IN IF ~ValidStock(stock)
               THEN /\ resp' = [op |-> "updateStock", code |-> 500]
                    /\ UNCHANGED medicines
               ELSE /\ medicines' = [medicines EXCEPT ![id].stock = stock]
                    /\ resp' = [op |-> "updateStock", code |-> 200]
  /\ UNCHANGED <<billVars, wardVars, appts, opds, doctorDoc>>
  /\ StockServed

(***************************************************************************)
(* Specifications                                                          *)
(***************************************************************************)
Init ==
  /\ bills = <<>>
  /\ billSeq = 0
  /\ inflight = [r \in 1..MaxInflight |-> NoReq]
  /\ beds = <<>>
  /\ bedSeq = 0
  /\ stays = <<>>
  /\ appts = <<>>
  /\ opds = <<>>
  /\ doctorDoc = SeededDoctor
  /\ medicines = <<>>
  /\ resp = [op |-> "none", code |-> 0]
  /\ nreq = 0

BillIds == 1..MaxBills

\* one request at a time
Next ==
  \/ \E p \in Patients \cup {UnknownPatient}, s \in ServiceLists,
        t \in TaxPcts, d \in Discounts : CreateBill(p, s, t, d)
  \/ \E id \in BillIds, body \in UpdateBodies : UpdateBill(id, body)
  \/ \E id \in BillIds : DeleteBill(id)
  \/ \E id \in BillIds, a \in PayAmounts : AddPayment(id, a)

Spec == Init /\ [][Next]_vars

\* payment requests that overlap each other and invoice creation / deletion
NextConc ==
  \/ \E p \in Patients, s \in ServiceLists \ {<<Svc(100, 1, 150)>>},
        t \in TaxPcts, d \in Discounts : CreateBill(p, s, t, d)
  \/ \E id \in BillIds : DeleteBill(id)
  \/ \E r \in 1..MaxInflight, id \in BillIds, a \in PayAmounts : AddPaymentLoad(r, id, a)
  \/ \E r \in 1..MaxInflight : AddPaymentSave(r)

SpecConc == Init /\ [][NextConc]_vars

BedIds == 1..MaxBeds
StayIds == 1..MaxStays

\* bed and inpatient requests, one at a time
NextWard ==
  \/ \E body \in CreateBedBodies : CreateBed(body)
  \/ \E id \in BedIds, body \in UpdateBedBodies : UpdateBed(id, body)
  \/ \E id \in BedIds : DeleteBed(id)
  \/ \E id \in BedIds : MarkMaintenance(id)
  \/ \E p \in Patients \cup {UnknownPatient}, id \in BedIds : AdmitPatient(p, id)
  \/ \E sid \in StayIds : DischargePatient(sid)
  \/ \E sid \in StayIds, id \in BedIds : TransferPatient(sid, id)

SpecWard == Init /\ [][NextWard]_vars

\* beds created with the schema defaults
PlainBedBodies ==
  {b \in CreateBedBodies : b.status = "default" /\ b.currentPatient = Null}

\* admitPatient requests that overlap each other and the other ward requests
NextWardConc ==
  \/ \E body \in PlainBedBodies : CreateBed(body)
  \/ \E id \in BedIds : DeleteBed(id)
  \/ \E r \in 1..MaxInflight, p \in Patients \cup {UnknownPatient}, id \in BedIds :
        AdmitStart(r, p, id)
  \/ \E r \in 1..MaxInflight : AdmitCheck(r)
  \/ \E r \in 1..MaxInflight : AdmitCount(r)
  \/ \E r \in 1..MaxInflight : AdmitInsert(r)
  \/ \E r \in 1..MaxInflight : AdmitSaveBed(r)
  \/ \E r \in 1..MaxInflight : AdmitSaveBedFails(r)
  \/ \E sid \in StayIds : DischargePatient(sid)
  \/ \E sid \in StayIds, id \in BedIds : TransferPatient(sid, id)

SpecWardConc == Init /\ [][NextWardConc]_vars

\* the requests on a stay, one at a time
NextNotes ==
  \/ \E body \in PlainBedBodies : CreateBed(body)
  \/ \E p \in Patients, id \in BedIds : AdmitPatient(p, id)
  \/ \E sid \in StayIds : DischargePatient(sid)
  \/ \E sid \in StayIds, id \in BedIds : TransferPatient(sid, id)
  \/ \E sid \in StayIds, note \in NoteTexts : AddTreatmentNote(sid, note)
  \/ \E sid \in StayIds, body \in VitalBodies : AddVitalRecord(sid, body)
  \/ \E sid \in StayIds, body \in MedicationBodies : AddMedication(sid, body)

SpecNotes == Init /\ [][NextNotes]_vars

ApptIds == 1..MaxAppts

\* appointment requests; createAppointment requests overlap each other and
\* the other requests
NextAppt ==
  \/ \E r \in 1..MaxInflight, p \in Patients \cup {UnknownPatient},
        d \in Doctors \cup {UnknownDoctor}, day \in Days, t \in Times :
        CreateApptCheck(r, p, d, day, t)
  \/ \E r \in 1..MaxInflight : CreateApptCount(r)
  \/ \E r \in 1..MaxInflight : CreateApptInsert(r)
  \/ \E id \in ApptIds, body \in UpdateApptBodies : UpdateAppointment(id, body)
  \/ \E id \in ApptIds : CancelAppointment(id)
  \/ \E id \in ApptIds : CompleteAppointment(id)
  \/ \E p \in Patients \cup {UnknownPatient}, a \in OpdAppointmentIds :
        CreateOPDRecord(p, a)

SpecAppt == Init /\ [][NextAppt]_vars

\* slot queries and appointment bookings
NextSlots ==
  \/ \E id \in Doctors \cup {UnknownDoctor}, day \in Days \cup {Null} :
        GetAvailableSlots(id, day)
  \/ \E p \in Patients, d \in Doctors, day \in Days, t \in Times :
        CreateApptCheck(1, p, d, day, t)
  \/ CreateApptCount(1)
  \/ CreateApptInsert(1)

\* the doctor as createDoctor stored it: one window or none, a valid duration
InitSlots ==
  /\ bills = <<>>
  /\ billSeq = 0
  /\ inflight = [r \in 1..MaxInflight |-> NoReq]
  /\ beds = <<>>
  /\ bedSeq = 0
  /\ stays = <<>>
  /\ appts = <<>>
  /\ opds = <<>>
  /\ doctorDoc \in [availability : AvailabilityBodies, slotDuration : SlotDurations]
  /\ medicines = <<>>
  /\ resp = [op |-> "none", code |-> 0]
  /\ nreq = 0

SpecSlots == InitSlots /\ [][NextSlots]_vars

MedicineIds == 1..MaxMedicines

\* pharmacy requests, one at a time
NextStock ==
  \/ \E st \in InitialStocks : CreateMedicine(st)
  \/ \E id \in MedicineIds, q \in Quantities, op \in Operations : UpdateStock(id, q, op)

SpecStock == Init /\ [][NextStock]_vars

(***************************************************************************)
(* Properties of the billing controller                                    *)
(***************************************************************************)
\* C1: every stored invoice has balanceAmount = totalAmount - paidAmount
C1_BalanceIsTotalMinusPaid ==
  \A id \in DOMAIN bills :
    bills[id].balanceAmount = bills[id].totalAmount - bills[id].paidAmount

\* rule 7 of the invoice computation
Rule7Status(b) ==
  IF b.paidAmount <= 0 THEN "PENDING"
  ELSE IF b.paidAmount >= b.totalAmount THEN "PAID"
  ELSE "PARTIAL"

\* C2: every stored invoice's paymentStatus is the rule-7 function of its
\* paidAmount and totalAmount
C2_StatusFollowsRule7 ==
  \A id \in DOMAIN bills : bills[id].paymentStatus = Rule7Status(bills[id])

\* C3: every stored invoice has paidAmount <= totalAmount
C3_PaidAtMostTotal ==
  \A id \in DOMAIN bills : bills[id].paidAmount <= bills[id].totalAmount

PaymentSum(b) == SumSeq([i \in DOMAIN b.payments |-> b.payments[i].amount])

\* C4: every stored invoice has paidAmount equal to the sum of the amounts of
\* its payments, also when addPayment requests overlap
C4_PaidIsSumOfPayments ==
  \A id \in DOMAIN bills : bills[id].paidAmount = PaymentSum(bills[id])

\* C5: no step lowers the paidAmount of a stored invoice
C5_PaidNeverDecreases ==
  [][\A id \in DOMAIN bills :
       id \in DOMAIN bills' => bills'[id].paidAmount >= bills[id].paidAmount]_vars

\* C6: addPayment appends a payment only when 0 < amount <= balanceAmount; any
\* other amount is answered with an error and leaves the invoice as it was
C6_PaymentAmountInRange ==
  [][\A id \in DOMAIN bills, a \in PayAmounts :
       (AddPayment(id, a) /\ ~(0 < a /\ a <= bills[id].balanceAmount))
         => (resp'.code # 200 /\ bills' = bills)]_vars

\* C7: addPayment of a positive amount on a PAID invoice is answered 400 and
\* leaves the invoice as it was; an accepted payment of the whole balance
\* leaves the invoice PAID, so that every later payment is refused
C7_PaidInvoiceRefusesPayment ==
  [][\A id \in DOMAIN bills, a \in PayAmounts :
       (AddPayment(id, a) /\ a > 0) =>
         /\ bills[id].paymentStatus = "PAID" => (resp'.code = 400 /\ bills' = bills)
         /\ (a = bills[id].balanceAmount /\ resp'.code = 200) =>
              bills'[id].paymentStatus = "PAID"]_vars

BillTerms(b) ==
  <<b.services, b.taxPct, b.taxAmt, b.discPct, b.discAmt, b.subtotal, b.totalAmount>>

\* C8: once an invoice is PAID no request changes its line items, tax,
\* discount or total, and updateBill on it is answered 400 and changes nothing
C8_PaidInvoiceNotEdited ==
  [][\A id \in DOMAIN bills :
       bills[id].paymentStatus = "PAID" =>
         /\ id \in DOMAIN bills' => BillTerms(bills'[id]) = BillTerms(bills[id])
         /\ \A body \in UpdateBodies :
              UpdateBill(id, body) => (resp'.code = 400 /\ bills' = bills)]_vars

C8_Witness ==
  /\ resp = [op |-> "updateBill", code |-> 400]
  /\ \E id \in DOMAIN bills :
       bills[id].paymentStatus = "PAID" /\ bills[id].paidAmount > 0

\* C9: deleteBill on an invoice with paidAmount > 0, or with a non-empty
\* payments list, is answered 400 and the invoice stays stored unchanged
C9_PaidInvoiceNotDeleted ==
  [][\A id \in DOMAIN bills :
       (DeleteBill(id) /\ (bills[id].paidAmount > 0 \/ bills[id].payments # <<>>))
         => (resp'.code = 400 /\ bills' = bills)]_vars

(***************************************************************************)
(* Properties of the bed and IPD controllers                               *)
(***************************************************************************)
\* C10: every bed has status OCCUPIED exactly when its currentPatient is set
C10_OccupiedIffPatient ==
  \A id \in DOMAIN beds :
    (beds[id].status = "OCCUPIED") <=> (beds[id].currentPatient # Null)

Admitted == {i \in DOMAIN stays : stays[i].status = "ADMITTED"}

\* C11: every ADMITTED stay's bed is OCCUPIED by the stay's patient, and a bed
\* that no ADMITTED stay references is not OCCUPIED
C11_BedStayCoupling ==
  /\ \A i \in Admitted :
       /\ stays[i].bedId \in DOMAIN beds
       /\ beds[stays[i].bedId].status = "OCCUPIED"
       /\ beds[stays[i].bedId].currentPatient = stays[i].patientId
  /\ \A b \in DOMAIN beds :
       (\A i \in Admitted : stays[i].bedId # b) => beds[b].status # "OCCUPIED"

\* C12: no patient has two ADMITTED stays, also when admitPatient requests
\* overlap
C12_SingleAdmission ==
  \A i, j \in Admitted : stays[i].patientId = stays[j].patientId => i = j

\* C13: no two ADMITTED stays reference the same bed, also when admitPatient
\* and transferPatient requests for one AVAILABLE bed overlap
C13_BedNotDoubleAssigned ==
  \A i, j \in Admitted : stays[i].bedId = stays[j].bedId => i = j

\* C14: in no state does an ADMITTED stay exist while its bed is AVAILABLE
C14_AdmissionAllOrNothing ==
  \A i \in Admitted :
    stays[i].bedId \in DOMAIN beds => beds[stays[i].bedId].status # "AVAILABLE"

\* C15: dischargePatient is answered with an error, and changes nothing,
\* unless the stay is ADMITTED; when accepted the stay is DISCHARGED with
\* dischargeDate set and its bed is AVAILABLE with no currentPatient
C15_DischargeContract ==
  [][\A sid \in StayIds :
       DischargePatient(sid) =>
         IF sid \in DOMAIN stays /\ stays[sid].status = "ADMITTED"
           THEN /\ resp'.code = 200
                /\ stays'[sid].status = "DISCHARGED"
                /\ stays'[sid].dischargeDate # Null
                /\ stays[sid].bedId \in DOMAIN beds =>
                     /\ beds'[stays[sid].bedId].status = "AVAILABLE"
                     /\ beds'[stays[sid].bedId].currentPatient = Null
           ELSE /\ resp'.code \in {400, 404}
                /\ UNCHANGED <<beds, stays>>]_vars

C15_Witness ==
  /\ resp = [op |-> "dischargePatient", code |-> 200]
  /\ \E sid \in DOMAIN stays :
       /\ stays[sid].status = "DISCHARGED"
       /\ stays[sid].dischargeDate # Null
       /\ stays[sid].bedId \in DOMAIN beds
       /\ beds[stays[sid].bedId].status = "AVAILABLE"

\* C16: transferPatient to a bed that is not AVAILABLE is rejected; an accepted
\* transfer to another bed leaves the stay ADMITTED on the new bed, the new bed
\* OCCUPIED by the stay's patient and the previous bed AVAILABLE and empty
C16_TransferContract ==
  [][\A sid \in DOMAIN stays, id \in BedIds :
       (TransferPatient(sid, id) /\ id # stays[sid].bedId) =>
         IF id \in DOMAIN beds /\ beds[id].status = "AVAILABLE"
           THEN /\ resp'.code = 200
                /\ stays'[sid].bedId = id
                /\ stays'[sid].status = "ADMITTED"
                /\ beds'[id].status = "OCCUPIED"
                /\ beds'[id].currentPatient = stays[sid].patientId
                /\ stays[sid].bedId \in DOMAIN beds =>
                     /\ beds'[stays[sid].bedId].status = "AVAILABLE"
                     /\ beds'[stays[sid].bedId].currentPatient = Null
           ELSE /\ resp'.code = 400
                /\ UNCHANGED <<beds, stays>>]_vars

\* C17: deleteBed on an OCCUPIED bed is answered 400 and no step removes an
\* OCCUPIED bed; deleteBed on a bed that is not OCCUPIED, such as a bed freed
\* by a discharge, removes it
C17_OccupiedBedNotDeleted ==
  [][\A id \in DOMAIN beds :
       /\ beds[id].status = "OCCUPIED" =>
            /\ id \in DOMAIN beds'
            /\ DeleteBed(id) => (resp'.code = 400 /\ beds' = beds)
       /\ (DeleteBed(id) /\ beds[id].status # "OCCUPIED") =>
            (resp'.code = 200 /\ id \notin DOMAIN beds')]_vars

C17_Witness ==
  /\ resp = [op |-> "deleteBed", code |-> 400]
  /\ \E i \in Admitted :
       /\ stays[i].bedId \in DOMAIN beds
       /\ beds[stays[i].bedId].status = "OCCUPIED"

\* C18: no step changes a bed's status from OCCUPIED to MAINTENANCE
C18_NoOccupiedToMaintenance ==
  [][\A id \in DOMAIN beds :
       (beds[id].status = "OCCUPIED" /\ id \in DOMAIN beds') =>
          beds'[id].status # "MAINTENANCE"]_vars

\* C19: every step after which a bed is OCCUPIED that was not OCCUPIED before
\* is an admitPatient or a transferPatient step
C19_OccupiedOnlyByAdmission ==
  [][\A id \in DOMAIN beds' :
       (beds'[id].status = "OCCUPIED" /\
          (id \notin DOMAIN beds \/ beds[id].status # "OCCUPIED")) =>
         resp'.op \in {"admitPatient", "transferPatient"}]_vars

(***************************************************************************)
(* Properties of the appointment controller                                *)
(***************************************************************************)
\* C20: for every doctor, date and time at most one appointment that is not
\* CANCELLED is stored, also when createAppointment requests overlap
C20_OneAppointmentPerSlot ==
  \A i, j \in DOMAIN appts :
    ( /\ appts[i].status # "CANCELLED" /\ appts[j].status # "CANCELLED"
      /\ appts[i].doctorId = appts[j].doctorId
      /\ appts[i].date = appts[j].date
      /\ appts[i].time = appts[j].time ) => i = j

\* a stored appointment of any status but CANCELLED holds the slot
SlotHeld(doctor, day, time) ==
  \E i \in DOMAIN appts :
    /\ appts[i].doctorId = doctor /\ appts[i].date = day /\ appts[i].time = time
    /\ appts[i].status # "CANCELLED"

\* C21: createAppointment for a doctor, date and time on which an appointment
\* that is not CANCELLED is stored is answered with an error and creates no
\* appointment
C21_HeldSlotRefused ==
  [][\A r \in 1..MaxInflight, p \in Patients, d \in Doctors, day \in Days, t \in Times :
       (CreateApptCheck(r, p, d, day, t) /\ SlotHeld(d, day, t)) =>
          (resp'.code = 400 /\ inflight' = inflight /\ appts' = appts)]_vars

\* C22: no step changes the status of an appointment that is COMPLETED,
\* CANCELLED or NO_SHOW
C22_TerminalStatusKept ==
  [][\A i \in DOMAIN appts :
       appts[i].status \in {"COMPLETED", "CANCELLED", "NO_SHOW"} =>
          appts'[i].status = appts[i].status]_vars

(***************************************************************************)
(* Properties of identifier generation                                     *)
(***************************************************************************)
\* C23: the recordId that the save hook gave a new stay is not the recordId of
\* a stored stay when the stay is inserted, also when admissions overlap
C23_IdsCollisionFree ==
  [][\A r \in 1..MaxInflight :
       AdmitInsert(r) => ~RecordIdTaken(inflight[r].count + 1)]_vars

(***************************************************************************)
(* Properties of rejected requests                                         *)
(***************************************************************************)
\* the step ends a request: a handler that runs in one step, or the last step
\* of a request that was in flight
Responds ==
  \/ nreq' # nreq /\ inflight' = inflight
  \/ \E r \in DOMAIN inflight : inflight[r].state # "idle" /\ inflight'[r].state = "idle"

\* C24: a request that is answered with an error leaves every stored invoice,
\* bed, stay and appointment as it was before the request: the answering step
\* changes none of them, and a stay that the request had inserted is not stored
C24_RejectedChangesNothing ==
  [][(Responds /\ resp'.code \in {400, 404, 500}) =>
       /\ UNCHANGED <<bills, beds, stays, appts>>
       /\ \A r \in DOMAIN inflight :
            (inflight[r].state = "inserted" /\ inflight'[r].state = "idle") =>
               ~\E i \in DOMAIN stays' : stays'[i].recordId = inflight[r].count + 1]_vars

(***************************************************************************)
(* Properties of the slot generator                                        *)
(***************************************************************************)
\* minutes after midnight of a time written HH:MM, digit by digit
MinutesOfHHMM(t) ==
  (DigitValue(t[1]) * 10 + DigitValue(t[2])) * 60 + DigitValue(t[4]) * 10 + DigitValue(t[5])

IsHHMM(t) ==
  /\ Len(t) = 5 /\ t[3] = ":"
  /\ \A i \in {1, 2, 4, 5} : \E k \in DOMAIN DigitChars : DigitChars[k] = t[i]

\* C25: for a doctor with a window [startTime, endTime) on the weekday asked
\* for and slot duration d, getAvailableSlots answers the times
\* startTime + k*d (k = 0, 1, ...) that lie before endTime, in increasing
\* order, each once, written HH:MM
C25_SlotsOfWindow ==
  [][\A id \in Doctors, day \in Days :
       (GetAvailableSlots(id, day) /\ DayAvailability(WeekdayOf[day]) # <<>>) =>
          LET a     == Head(DayAvailability(WeekdayOf[day]))
              start == MinutesOfHHMM(a.startTime)
              end   == MinutesOfHHMM(a.endTime)
              d     == doctorDoc.slotDuration
              n     == Cardinality({m \in start..(end - 1) : (m - start) % d = 0})
          IN /\ resp'.code = 200
             /\ Len(resp'.slots) = n
             /\ \A k \in 1..n :
                  /\ IsHHMM(resp'.slots[k].time)
                  /\ MinutesOfHHMM(resp'.slots[k].time) = start + (k - 1) * d]_vars

C25_Witness ==
  /\ resp.op = "getAvailableSlots" /\ resp.code = 200
  /\ doctorDoc.slotDuration = 30
  /\ doctorDoc.availability =
        <<[day |-> "Monday", startTime |-> Clock("0","9","0","0"),
           endTime |-> Clock("1","0","0","0")]>>
  /\ Len(resp.slots) = 2
  /\ resp.slots[1].time = Clock("0","9","0","0")
  /\ resp.slots[2].time = Clock("0","9","3","0")
  /\ ~resp.slots[1].available /\ resp.slots[2].available

(***************************************************************************)
(* Properties of the stay's life cycle and logs                            *)
(***************************************************************************)
\* C26: no step changes the status or the bedId of a DISCHARGED stay, and
\* transferPatient or dischargePatient on a DISCHARGED stay changes no bed
C26_DischargedIsTerminal ==
  [][\A sid \in DOMAIN stays :
       stays[sid].status = "DISCHARGED" =>
         /\ stays'[sid].status = "DISCHARGED"
         /\ stays'[sid].bedId = stays[sid].bedId
         /\ (DischargePatient(sid) \/ \E id \in BedIds : TransferPatient(sid, id)) =>
               beds' = beds]_vars

\* C27: a successful transferPatient appends one note to the stay's
\* treatmentNotes, naming the bed the stay had before as the source and the new
\* bed as the destination
C27_TransferNoteNamesBeds ==
  [][\A sid \in DOMAIN stays, id \in BedIds :
       (TransferPatient(sid, id) /\ resp'.code = 200) =>
          LET notes == stays'[sid].treatmentNotes
          IN /\ Len(notes) = Len(stays[sid].treatmentNotes) + 1
             /\ SubSeq(notes, 1, Len(notes) - 1) = stays[sid].treatmentNotes
             /\ notes[Len(notes)].from = stays[sid].bedId
             /\ notes[Len(notes)].to = id]_vars

StayLists(st) == <<st.treatmentNotes, st.vitalRecords, st.medications>>

\* `new` is `old` with `n` entries appended
Extends(old, new, n) ==
  Len(new) = Len(old) + n /\ SubSeq(new, 1, Len(old)) = old

\* C28: addTreatmentNote, addVitalRecord and addMedication each append one
\* entry to their own list of the stay and leave the other two lists, the
\* stay's status and bedId, the other stays and every bed as they were; no
\* step removes or edits an entry of any of the three lists
C28_ListsAppendOnly ==
  [][/\ \A sid \in DOMAIN stays :
          /\ sid \in DOMAIN stays'
          /\ \A k \in 1..3 :
               \E n \in 0..1 : Extends(StayLists(stays[sid])[k], StayLists(stays'[sid])[k], n)
          /\ \A k \in 1..3 :
               ( /\ resp'.code = 200
                 /\ \/ k = 1 /\ \E x \in NoteTexts : AddTreatmentNote(sid, x)
                    \/ k = 2 /\ \E x \in VitalBodies : AddVitalRecord(sid, x)
                    \/ k = 3 /\ \E x \in MedicationBodies : AddMedication(sid, x) ) =>
                 /\ Extends(StayLists(stays[sid])[k], StayLists(stays'[sid])[k], 1)
                 /\ \A j \in 1..3 \ {k} :
                      StayLists(stays'[sid])[j] = StayLists(stays[sid])[j]
                 /\ stays'[sid].status = stays[sid].status
                 /\ stays'[sid].bedId = stays[sid].bedId
                 /\ \A other \in DOMAIN stays \ {sid} : stays'[other] = stays[other]
                 /\ beds' = beds]_vars

C28_Witness ==
  /\ resp.code = 200
  /\ resp.op \in {"addTreatmentNote", "addVitalRecord", "addMedication"}
  /\ \E sid \in DOMAIN stays :
       /\ Len(stays[sid].treatmentNotes) >= 1
       /\ Len(stays[sid].vitalRecords) >= 1
       /\ Len(stays[sid].medications) >= 1

(***************************************************************************)
(* Properties of the invoice amounts and of the pharmacy stock             *)
(***************************************************************************)
\* C29: every stored invoice has line totals >= 0 and totalAmount >= 0
C29_AmountsNotNegative ==
  \A id \in DOMAIN bills :
    /\ bills[id].totalAmount >= 0
    /\ \A i \in DOMAIN bills[id].services :
         bills[id].services[i].total # <<>> => bills[id].services[i].total[1] >= 0

\* C30: no medicine has a negative stock after any step; updateStock with
\* 'subtract' of more than the stock is answered 400 with the stock unchanged,
\* an accepted 'add' raises the stock by the quantity, and any other
\* operation, when accepted, sets the stock to the quantity
C30_StockNotNegative ==
  [][/\ \A id \in DOMAIN medicines' : medicines'[id].stock >= 0
     /\ \A id \in DOMAIN medicines, q \in Quantities, op \in Operations :
          UpdateStock(id, q, op) =>
            LET stock == medicines[id].stock
            IN /\ (op = "subtract" /\ q > stock) =>
                    (resp'.code = 400 /\ medicines' = medicines)
               /\ (op = "add" /\ q >= 0) =>
                    (resp'.code = 200 /\ medicines'[id].stock = stock + q)
               /\ (op \notin {"add", "subtract"} /\ q >= 0) =>
                    (resp'.code = 200 /\ medicines'[id].stock = q)
               /\ resp'.code # 200 => medicines' = medicines]_vars

C30_Witness ==
  /\ resp = [op |-> "updateStock", code |-> 400]
  /\ \E id \in DOMAIN medicines : medicines[id].stock > 0

====
